---------------------------- MODULE Spec2Model ----------------------------
(***************************************************************************)
(* Honeypot session analysis pipeline: agent.py (indicator extraction,     *)
(* keyword scoring, reply generation with a canned fallback) and main.py   *)
(* (payload normalisation in universal_handler, the response, and the      *)
(* background report job send_callback_task).                              *)
(*                                                                         *)
(* Texts are TLA+ strings; a character is a string of length one.          *)
(***************************************************************************)
EXTENDS Integers, Sequences, FiniteSets, TLC

(***************************************************************************)
(* Characters and character classes of the regular expressions             *)
(***************************************************************************)
LowerLetters == "abcdefghijklmnopqrstuvwxyz"
UpperLetters == "ABCDEFGHIJKLMNOPQRSTUVWXYZ"
Digits == "0123456789"

CharAt(text, i) == SubSeq(text, i, i)

InClass(c, class) == \E i \in 1..Len(class) : CharAt(class, i) = c

\* [a-zA-Z]
IsLetter(c) == InClass(c, LowerLetters) \/ InClass(c, UpperLetters)
\* \d
IsDigit(c) == InClass(c, Digits)
\* [a-zA-Z0-9.\-_]
IsUpiChar(c) == IsLetter(c) \/ IsDigit(c) \/ InClass(c, ".-_")
\* [-\w.]
IsUrlChar(c) == IsLetter(c) \/ IsDigit(c) \/ InClass(c, "_-.")
\* [\da-fA-F]
IsHex(c) == IsDigit(c) \/ InClass(c, "abcdefABCDEF")
\* [\-\s]
IsPhoneSep(c) == InClass(c, "- ")
\* [6-9]
IsPhoneLead(c) == InClass(c, "6789")

\* str.lower() on one character
LowerChar(c) ==
    IF InClass(c, UpperLetters)
    THEN CharAt(LowerLetters, CHOOSE i \in 1..Len(UpperLetters) : CharAt(UpperLetters, i) = c)
    ELSE c

\* str.lower(): every character lowered, in place; computed half by half
RECURSIVE lower(_)
lower(text) ==
    IF Len(text) = 0 THEN ""
    ELSE IF Len(text) = 1 THEN LowerChar(text)
    ELSE lower(SubSeq(text, 1, Len(text) \div 2))
         \o lower(SubSeq(text, Len(text) \div 2 + 1, Len(text)))

\* Python's `word in text` on strings
Contains(text, word) ==
    \E i \in 1..(Len(text) - Len(word) + 1) : SubSeq(text, i, i + Len(word) - 1) = word

\* text.startswith(lit, i - 1)
LitAt(text, i, lit) ==
    /\ i + Len(lit) - 1 <= Len(text)
    /\ SubSeq(text, i, i + Len(lit) - 1) = lit

(***************************************************************************)
(* agent.py: extract_intelligence                                          *)
(***************************************************************************)
UpiMaxName == 256
UpiMinName == 2
UpiMaxBank == 64
UpiMinBank == 2
PhoneDigits == 9

\* the most characters a greedy quantifier can take from position i: cap, or
\* what is left of the text
RunLimit(text, i, cap) ==
    IF i > Len(text) THEN 0
    ELSE IF Len(text) - i + 1 < cap THEN Len(text) - i + 1
    ELSE cap

\* greedy run of letters from position i, at most cap characters
LetterRun(text, i, cap) ==
    CHOOSE n \in 0..RunLimit(text, i, cap) :
        /\ \A k \in 0..(n - 1) : IsLetter(CharAt(text, i + k))
        /\ n = RunLimit(text, i, cap) \/ ~IsLetter(CharAt(text, i + n))

\* greedy run of [a-zA-Z0-9.\-_] from position i, at most cap characters
UpiRun(text, i, cap) ==
    CHOOSE n \in 0..RunLimit(text, i, cap) :
        /\ \A k \in 0..(n - 1) : IsUpiChar(CharAt(text, i + k))
        /\ n = RunLimit(text, i, cap) \/ ~IsUpiChar(CharAt(text, i + n))

\* greedy (?:[-\w.]|(?:%[\da-fA-F]{2}))+ from position i: characters consumed
RECURSIVE UrlRun(_, _)
UrlRun(text, i) ==
    IF i > Len(text) THEN 0
    ELSE IF IsUrlChar(CharAt(text, i)) THEN 1 + UrlRun(text, i + 1)
    ELSE IF /\ CharAt(text, i) = "%"
            /\ i + 2 <= Len(text)
            /\ IsHex(CharAt(text, i + 1))
            /\ IsHex(CharAt(text, i + 2))
         THEN 3 + UrlRun(text, i + 3)
    ELSE 0

\* [6-9]\d{9} at position i
PhoneBodyAt(text, i) ==
    /\ i + PhoneDigits <= Len(text)
    /\ IsPhoneLead(CharAt(text, i))
    /\ \A k \in 1..PhoneDigits : IsDigit(CharAt(text, i + k))

\* Each *_match gives the position just after the match of the pattern that
\* starts at position i, or 0 when the pattern does not match there.
\* the bank part [a-zA-Z]{2,64} after the "@" at position at
upi_bank(text, at, b) == IF b >= UpiMinBank THEN at + 1 + b ELSE 0

\* n characters of the name were taken from position i; "@" must follow
upi_at(text, i, n) ==
    IF n >= UpiMinName /\ i + n <= Len(text) /\ CharAt(text, i + n) = "@"
    THEN upi_bank(text, i + n, LetterRun(text, i + n + 1, UpiMaxBank))
    ELSE 0

upi_match(text, i) == upi_at(text, i, UpiRun(text, i, UpiMaxName))

\* the host part from position start, n characters long
url_host(start, n) == IF n >= 1 THEN start + n ELSE 0

url_match(text, i) ==
    IF LitAt(text, i, "https://") THEN url_host(i + 8, UrlRun(text, i + 8))
    ELSE IF LitAt(text, i, "http://") THEN url_host(i + 7, UrlRun(text, i + 7))
    ELSE 0

phone_match(text, i) ==
    IF LitAt(text, i, "+91")
    THEN IF i + 3 <= Len(text) /\ IsPhoneSep(CharAt(text, i + 3)) /\ PhoneBodyAt(text, i + 4)
         THEN i + 4 + PhoneDigits + 1
         ELSE IF PhoneBodyAt(text, i + 3) THEN i + 3 + PhoneDigits + 1
         ELSE 0
    ELSE IF PhoneBodyAt(text, i) THEN i + PhoneDigits + 1
    ELSE 0

pattern_match(pattern, text, i) ==
    CASE pattern = "upi_pattern" -> upi_match(text, i)
      [] pattern = "url_pattern" -> url_match(text, i)
      [] pattern = "phone_pattern" -> phone_match(text, i)

\* the least element of a set of positions, 0 for the empty set
Least(positions) ==
    IF positions = {} THEN 0
    ELSE CHOOSE j \in positions : \A k \in positions : j <= k

\* the leftmost position from i on at which the pattern matches, 0 if none
next_match(pattern, text, i) ==
    Least({j \in i..Len(text) : pattern_match(pattern, text, j) # 0})

\* re.findall(pattern, text) scanning from position i: leftmost match first,
\* the scan resumes just after each match.
RECURSIVE findall_from(_, _, _)

\* the match that starts at j and ends before e, then the rest of the scan
findall_step(pattern, text, j, e) ==
    <<SubSeq(text, j, e - 1)>> \o findall_from(pattern, text, e)

\* j is the start of the next match, or 0
findall_at(pattern, text, j) ==
    IF j = 0 THEN << >>
    ELSE findall_step(pattern, text, j, pattern_match(pattern, text, j))

findall_from(pattern, text, i) == findall_at(pattern, text, next_match(pattern, text, i))

findall(pattern, text) == findall_from(pattern, text, 1)

extract_intelligence(text) ==
    [upiIds |-> findall("upi_pattern", text),
     phishingLinks |-> findall("url_pattern", text),
     phoneNumbers |-> findall("phone_pattern", text)]

(***************************************************************************)
(* agent.py: generate_reply (reply with canned fallback, keyword score)    *)
(***************************************************************************)
scam_keywords == <<"urgent", "pay", "verify", "block", "expired", "kyc", "winner", "prize", "otp">>
BaseScore == 10
KeywordWeight == 20
ScoreCap == 95
LlmFallbackReply == "Oh dear, my internet seems slow. Can you say that again?"

Min(a, b) == IF a <= b THEN a ELSE b

\* number of positions of text at which word starts
Occurrences(text, word) ==
    Cardinality({i \in 1..(Len(text) - Len(word) + 1) :
                    SubSeq(text, i, i + Len(word) - 1) = word})

\* mutant: every occurrence of a keyword adds the weight, not every keyword
RECURSIVE keyword_loop_CountsRepeats(_, _, _)
keyword_loop_CountsRepeats(text_lower, k, score) ==
    IF k > Len(scam_keywords) THEN score
    ELSE keyword_loop_CountsRepeats(text_lower, k + 1,
             score + KeywordWeight * Occurrences(text_lower, scam_keywords[k]))

\* the loop `for word in scam_keywords: if word in text_lower: score += 20`
\* from the k-th keyword on, starting with the running score
RECURSIVE keyword_loop(_, _, _)
keyword_loop(text_lower, k, score) ==
    IF k > Len(scam_keywords) THEN score
    ELSE keyword_loop(text_lower, k + 1,
                      IF Contains(text_lower, scam_keywords[k])
                      THEN score + KeywordWeight ELSE score)

scam_score(latest_user_input) ==
    Min(keyword_loop(lower(latest_user_input), 1, BaseScore), ScoreCap)

\* mutant: the except branch returns at once, before the scoring
generate_reply_ReturnsInExcept(state, llm) ==
    IF llm.ok
    THEN [reply |-> llm.content, scam_score |-> scam_score(state.latest_user_input)]
    ELSE [reply |-> LlmFallbackReply, scam_score |-> state.scam_score]

\* llm is the outcome of llm.invoke(messages): [ok |-> BOOLEAN, content |-> STRING];
\* ok = FALSE stands for any exception raised by the call.
generate_reply(state, llm) ==
    LET content == IF llm.ok THEN llm.content ELSE LlmFallbackReply
    IN  [reply |-> content, scam_score |-> scam_score(state.latest_user_input)]

\* app_graph: the single node "grandpa" (generate_reply), then END; the node's
\* result is merged into the state.
merge_state(state, out) ==
    [state EXCEPT !.reply = out.reply, !.scam_score = out.scam_score]

app_graph_invoke(initial_state, llm) ==
    merge_state(initial_state, generate_reply(initial_state, llm))

(***************************************************************************)
(* JSON values as the handler sees them: a type tag and, for a string, its *)
(* text.  t = "absent" marks a key that is not in the dict.                *)
(***************************************************************************)
Absent == [t |-> "absent", s |-> ""]
Str(s) == [t |-> "str", s |-> s]
NonStr(t) == [t |-> t, s |-> ""]
IsStr(v) == v.t = "str"
Present(v) == v.t # "absent"

NoIntel == [upiIds |-> << >>, phishingLinks |-> << >>, phoneNumbers |-> << >>]

\* agent.py process_message(user_text, history): re.findall raises TypeError on
\* a user_text that is not a string, before the graph runs.
\* line 128: return result['reply'], result['scam_score'], intel
process_message_return(result, intel) ==
    [raised |-> FALSE, llm_invoked |-> TRUE, reply |-> result.reply,
     scam_score |-> result.scam_score, intel |-> intel]

process_message(user_text, history, llm) ==
    IF ~IsStr(user_text)
    THEN [raised |-> TRUE, llm_invoked |-> FALSE, reply |-> "", scam_score |-> 0, intel |-> NoIntel]
    ELSE process_message_return(
             app_graph_invoke([messages |-> history,
                               latest_user_input |-> user_text.s,
                               reply |-> "",
                               scam_score |-> 0], llm),
             extract_intelligence(user_text.s))

(***************************************************************************)
(* main.py: universal_handler                                              *)
(***************************************************************************)
DefaultSession == "default_session"
DefaultText == "Hello"
DummyReply == "I am a bit confused, why do I need to pay?"
CrashReply == "Internet slow. Please repeat?"
ScamThreshold == 50
NotesLen == 50

NoHistory == [t |-> "absent", items |-> << >>]

EmptyDict ==
    [root |-> "dict", sessionId |-> Absent, session_id |-> Absent, message |-> Absent,
     message_text |-> Absent, text |-> Absent, user_input |-> Absent, content |-> Absent,
     conversationHistory |-> NoHistory]

\* lines 88-94: request.body() / request.json(); any failure gives data = {}
parse_body(body) == IF body.raw = "json" THEN body.data ELSE EmptyDict

\* line 97: data.get("sessionId", data.get("session_id", "default_session"))
get_session_id(data) ==
    IF Present(data.sessionId) THEN data.sessionId
    ELSE IF Present(data.session_id) THEN data.session_id
    ELSE Str(DefaultSession)

\* lines 99-106
get_user_text(data) ==
    IF Present(data.message)
    THEN IF data.message.t = "dict"
         THEN IF Present(data.message_text) THEN data.message_text ELSE Str(DefaultText)
         ELSE IF data.message.t = "str" THEN data.message
         ELSE Str(DefaultText)
    ELSE IF Present(data.text) THEN data.text
    ELSE Str(DefaultText)

\* lines 112-116: the text of every dict entry of a list-valued conversationHistory
\* (the text values of the history entries considered here are strings)
RECURSIVE history_texts(_)
history_texts(items) ==
    IF items = << >> THEN << >>
    ELSE LET item == Head(items)
             rest == history_texts(Tail(items))
         IN  IF item.t = "dict"
             THEN <<IF Present(item.text) THEN item.text.s ELSE "">> \o rest
             ELSE rest

get_history(data) ==
    IF data.conversationHistory.t = "list"
    THEN history_texts(data.conversationHistory.items)
    ELSE << >>

\* mutant: the fallback score starts at the scorer's base instead of 0
\* lines 125-131: the result of the call, or the except branch
agent_outcome(out, crash_score) ==
    IF out.raised
    THEN [agent |-> "crash", llm_invoked |-> out.llm_invoked,
          bot_reply |-> CrashReply, score |-> crash_score, intel |-> NoIntel]
    ELSE [agent |-> "success", llm_invoked |-> out.llm_invoked,
          bot_reply |-> out.reply, score |-> out.scam_score, intel |-> out.intel]

run_agent_CrashKeepsBase(agent_active, user_text, history, llm) ==
    IF agent_active
    THEN agent_outcome(process_message(user_text, history, llm), BaseScore)
    ELSE [agent |-> "inactive", llm_invoked |-> FALSE,
          bot_reply |-> DummyReply, score |-> BaseScore, intel |-> NoIntel]

\* lines 120-133: the agent call and its fallbacks
run_agent(agent_active, user_text, history, llm) ==
    IF agent_active
    THEN agent_outcome(process_message(user_text, history, llm), 0)
    ELSE [agent |-> "inactive", llm_invoked |-> FALSE,
          bot_reply |-> DummyReply, score |-> 0, intel |-> NoIntel]

NoResponse ==
    [reply |-> "", scamDetected |-> FALSE, session_id |-> Absent, extractedIndicators |-> NoIntel]

\* line 136, the arguments of add_task
report_job(session_id, history, a) ==
    [session_id |-> session_id, total_msgs |-> Len(history) + 1,
     intel |-> a.intel, score |-> a.score, notes |-> a.bot_reply]

\* lines 139-160
response_data(session_id, a) ==
    [reply |-> a.bot_reply,
     scamDetected |-> a.score > ScamThreshold,
     session_id |-> session_id,
     extractedIndicators |-> a.intel]

\* lines 119-163 on the normalised fields; a is the result of run_agent
handler_result(session_id, user_text, history, a) ==
    [raised |-> FALSE, session_id |-> session_id, user_text |-> user_text,
     history |-> history, agent |-> a.agent, llm_invoked |-> a.llm_invoked,
     score |-> a.score,
     background_tasks |-> <<report_job(session_id, history, a)>>,
     response |-> response_data(session_id, a)]

\* lines 96-163 on the parsed data
handle_data(session_id, user_text, history, llm, agent_active) ==
    handler_result(session_id, user_text, history,
                   run_agent(agent_active, user_text, history, llm))

\* The whole handler on one request.  A JSON body that is not an object makes
\* data.get (line 97) raise AttributeError: no response is built, no task added.
handle_parsed(data, llm, agent_active) ==
    IF data.root # "dict"
    THEN [raised |-> TRUE, session_id |-> Absent, user_text |-> Absent, history |-> << >>,
          agent |-> "none", llm_invoked |-> FALSE, score |-> 0,
          background_tasks |-> << >>, response |-> NoResponse]
    ELSE handle_data(get_session_id(data), get_user_text(data), get_history(data),
                     llm, agent_active)

universal_handler(body, llm, agent_active) ==
    handle_parsed(parse_body(body), llm, agent_active)

(***************************************************************************)
(* main.py: send_callback_task                                             *)
(***************************************************************************)
ReportThreshold == 10
NetOutcomes == {"2xx", "non2xx", "timeout", "connection_error"}

\* requests.post(CALLBACK_URL, json=payload, timeout=5): raises on a timeout or a
\* connection error, returns a response object for any status code.
requests_post(net) == [raised |-> net \in {"timeout", "connection_error"}]

\* mutant: no except clause around the call
callback_try_NoExcept(post) == [raised |-> post.raised, logged_error |-> FALSE]

\* lines 67-72: the call sits in try / except Exception, which logs the error
\* and lets the task return; post is the result of requests_post.
callback_try(post) == [raised |-> FALSE, logged_error |-> post.raised]

\* the payload of lines 53-65
callback_payload(job) ==
    [sessionId |-> job.session_id,
     scamDetected |-> job.score > ScamThreshold,
     totalMessagesExchanged |-> job.total_msgs,
     upiIds |-> job.intel.upiIds,
     phishingLinks |-> job.intel.phishingLinks,
     phoneNumbers |-> job.intel.phoneNumbers,
     notes |-> SubSeq(job.notes, 1, Min(NotesLen, Len(job.notes)))]

\* mutant: the guard is `score <= 10`
send_callback_task_SkipsAtThreshold(job, net) ==
    IF job.score <= ReportThreshold
    THEN [network_calls |-> 0, raised |-> FALSE, payload |-> << >>]
    ELSE [network_calls |-> 1, raised |-> callback_try(requests_post(net)).raised,
          payload |-> <<callback_payload(job)>>]

\* mutant: a failed call is tried once more
send_callback_task_Retries(job, net) ==
    IF job.score < ReportThreshold
    THEN [network_calls |-> 0, raised |-> FALSE, payload |-> << >>]
    ELSE [network_calls |-> IF requests_post(net).raised THEN 2 ELSE 1,
          raised |-> callback_try(requests_post(net)).raised,
          payload |-> <<callback_payload(job)>>]

\* net is the outcome the network would give to a call.  The result says how
\* many calls were issued and whether the task raised.
send_callback_task(job, net) ==
    IF job.score < ReportThreshold
    THEN [network_calls |-> 0, raised |-> FALSE, payload |-> << >>]
    ELSE [network_calls |-> 1, raised |-> callback_try(requests_post(net)).raised,
          payload |-> <<callback_payload(job)>>]

(***************************************************************************)
(* Inputs                                                                  *)
(***************************************************************************)
MaxRequests == 2
MaxFrags == 2

ScoreExample == "please pay urgent otp now"
ExtractExample == "contact me at 9876543210 or ramu@paytm or http://bit.ly/x"
ScenarioText == "Your KYC is expired, pay now to unblock"

Fragments ==
    {ScoreExample, ExtractExample, "PAY ", "pay", "urgent verify unblock ",
     "KYC expired winner", " prize otp", "+91-9876543210", " 98765",
     "https://a.in/%2Fb", "x@okaxis "}

RECURSIVE TextsUpTo(_)
TextsUpTo(n) ==
    IF n = 0 THEN {""}
    ELSE TextsUpTo(n - 1) \cup {t \o f : t \in TextsUpTo(n - 1), f \in Fragments}

Texts == TextsUpTo(MaxFrags)

LlmOutcomes ==
    {[ok |-> TRUE, content |-> "Aiyo, what is this O.T.P? Which buton to clik?"],
     [ok |-> TRUE, content |-> ""],
     [ok |-> FALSE, content |-> ""]}
LlmNotInvoked == [ok |-> FALSE, content |-> "<not invoked>"]

HistoryVals ==
    {NoHistory,
     [t |-> "str", items |-> << >>],
     [t |-> "list", items |-> <<[t |-> "dict", text |-> Str("hi")],
                                [t |-> "str", text |-> Absent],
                                [t |-> "dict", text |-> Absent]>>]}

JsonDicts ==
    {d \in [root : {"dict"},
            sessionId : {Absent, Str("s1")},
            session_id : {Absent, Str("s2")},
            message : {Absent, NonStr("dict"), Str("pay now ab@upi"), NonStr("list"), NonStr("null")},
            message_text : {Absent, Str(ScenarioText), Str(""), NonStr("num")},
            text : {Absent, Str("verify kyc at http://x.in"), NonStr("num")},
            user_input : {Absent, Str("winner prize")},
            content : {Absent, Str("block expired")},
            conversationHistory : HistoryVals] :
        d.message.t # "dict" => d.message_text = Absent}

Json(data) == [raw |-> "json", data |-> data]

\* bodies of every shape: no body, bytes that are not JSON, JSON that is not an
\* object, and objects with every combination of the fields above
AllBodies ==
    {[raw |-> r, data |-> EmptyDict] : r \in {"empty", "invalid_json"}}
    \cup {Json([EmptyDict EXCEPT !.root = k]) : k \in {"null", "list", "str", "num"}}
    \cup {Json(d) : d \in JsonDicts}

\* the bodies of the requests of the concurrent pipeline: scores 70, 10 and 30,
\* a text that is not a string (the agent call raises), a body that is not an object
PipelineBodies ==
    {Json([EmptyDict EXCEPT !.message = NonStr("dict"), !.message_text = Str("kyc pay otp")]),
     Json([EmptyDict EXCEPT !.sessionId = Str("s1"), !.text = Str("hi")]),
     Json([EmptyDict EXCEPT !.sessionId = Str("s1"), !.message = Str("pay ab@upi")]),
     Json([EmptyDict EXCEPT !.sessionId = Str("s1"), !.text = NonStr("num")]),
     Json([EmptyDict EXCEPT !.root = "list"])}

(***************************************************************************)
(* State                                                                   *)
(***************************************************************************)
VARIABLES
    AGENT_ACTIVE,   \* main.py: whether `from agent import process_message` worked
    requests,       \* request number -> the request's progress and results
    agent_call      \* one direct call of agent.process_message

vars == <<AGENT_ACTIVE, requests, agent_call>>

Requests == 1..MaxRequests

NoResult ==
    [raised |-> FALSE, session_id |-> Absent, user_text |-> Absent, history |-> << >>,
     agent |-> "none", llm_invoked |-> FALSE, score |-> 0,
     background_tasks |-> << >>, response |-> NoResponse]

NoRequest ==
    [pc |-> "none", body |-> [raw |-> "empty", data |-> EmptyDict], llm |-> LlmNotInvoked,
     h |-> NoResult, sent |-> << >>, ran |-> << >>]

NoAgentCall ==
    [pc |-> "idle", user_text |-> Absent, llm |-> LlmNotInvoked,
     result |-> [raised |-> FALSE, llm_invoked |-> FALSE, reply |-> "", scam_score |-> 0,
                 intel |-> NoIntel]]

(***************************************************************************)
(* The pipeline: requests handled, responses sent, background tasks run    *)
(***************************************************************************)
Init ==
    /\ AGENT_ACTIVE \in BOOLEAN
    /\ requests = [r \in Requests |-> NoRequest]
    /\ agent_call = NoAgentCall

\* the record of a request whose handler has run with result h
HandledRequest(body, llm, h) ==
    [pc |-> IF h.raised THEN "crashed" ELSE "returned",
     body |-> body,
     llm |-> IF h.llm_invoked THEN llm ELSE LlmNotInvoked,
     h |-> h, sent |-> << >>, ran |-> << >>]

\* One run of universal_handler on request r, from entry to `return
\* response_data` (or to the exception that ends it).  Requests are numbered in
\* the order their handlers run.
HandleRequest(r, bodies) ==
    /\ requests[r].pc = "none"
    /\ \A q \in Requests : q < r => requests[q].pc # "none"
    /\ \E body \in bodies, llm \in LlmOutcomes :
         requests' = [requests EXCEPT ![r] =
             HandledRequest(body, llm, universal_handler(body, llm, AGENT_ACTIVE))]
    /\ UNCHANGED <<AGENT_ACTIVE, agent_call>>

\* The framework sends the returned response_data to the client.
SendResponse(r) ==
    /\ requests[r].pc = "returned"
    /\ requests' = [requests EXCEPT ![r].pc = "sent",
                                    ![r].sent = <<requests[r].h.response>>]
    /\ UNCHANGED <<AGENT_ACTIVE, agent_call>>

\* mutant: the task is run by the handler itself, before it returns
BackgroundReady_Inline(r) == requests[r].pc \in {"returned", "sent"}

\* background_tasks.add_task (line 136): the tasks of a request run once its
\* response has been sent.
BackgroundReady(r) == requests[r].pc = "sent"

\* what is known of a task that has run: its job, the outcome of its network
\* call if it made one, and the result res of send_callback_task
TaskRun(job, net, res) ==
    [job |-> job,
     net |-> IF res.network_calls > 0 THEN net ELSE "not_called",
     network_calls |-> res.network_calls,
     raised |-> res.raised]

RunBackground(r) ==
    /\ BackgroundReady(r)
    /\ requests[r].h.background_tasks # << >>
    /\ \E net \in NetOutcomes :
         requests' = [requests EXCEPT
             ![r].pc = "done",
             ![r].h.background_tasks = Tail(requests[r].h.background_tasks),
             ![r].ran = Append(requests[r].ran,
                               TaskRun(Head(requests[r].h.background_tasks), net,
                                       send_callback_task(Head(requests[r].h.background_tasks), net)))]
    /\ UNCHANGED <<AGENT_ACTIVE, agent_call>>

Next ==
    \E r \in Requests :
        \/ HandleRequest(r, PipelineBodies)
        \/ SendResponse(r)
        \/ RunBackground(r)

Spec == Init /\ [][Next]_vars

(***************************************************************************)
(* One request at a time, over bodies of every shape                       *)
(***************************************************************************)
HandleAnyBody == HandleRequest(1, AllBodies)

NextHandler == HandleAnyBody

SpecHandler == Init /\ [][NextHandler]_vars

(***************************************************************************)
(* agent.process_message called directly on a text                         *)
(***************************************************************************)
InitAgent ==
    /\ AGENT_ACTIVE = TRUE
    /\ requests = [r \in Requests |-> NoRequest]
    /\ agent_call \in {[NoAgentCall EXCEPT !.pc = "called", !.user_text = Str(t)] : t \in Texts}

ProcessMessage ==
    /\ agent_call.pc = "called"
    /\ \E llm \in LlmOutcomes :
         agent_call' = [agent_call EXCEPT
             !.pc = "returned",
             !.llm = llm,
             !.result = process_message(agent_call.user_text, << >>, llm)]
    /\ UNCHANGED <<AGENT_ACTIVE, requests>>

NextAgent == ProcessMessage

SpecAgent == InitAgent /\ [][NextAgent]_vars

(***************************************************************************)
(* Vocabulary of the properties                                            *)
(***************************************************************************)
Arrived(r) == requests[r].pc # "none"
Handled(r) == requests[r].pc \in {"returned", "sent", "done"}
Done(r) == requests[r].pc = "done"

\* network calls issued so far by the report job of request r
NetworkCalls(r) ==
    IF requests[r].ran = << >> THEN 0 ELSE requests[r].ran[1].network_calls

RECURSIVE SumCalls(_)
SumCalls(rs) ==
    IF rs = {} THEN 0
    ELSE LET r == CHOOSE q \in rs : TRUE
         IN  NetworkCalls(r) + SumCalls(rs \ {r})

InSession(sid) == {r \in Requests : Handled(r) /\ requests[r].h.session_id = sid}
SessionCalls(sid) == SumCalls(InSession(sid))
SessionIds == {requests[r].h.session_id : r \in {q \in Requests : Handled(q)}}

\* a request whose report job has run with a score at or above the threshold
Significant(r) == Done(r) /\ requests[r].h.score >= 10

\* the distinct keywords of the vocabulary that occur in the lower-cased text
KeywordsIn(text) ==
    {scam_keywords[k] : k \in {j \in 1..Len(scam_keywords) :
                                  Contains(lower(text), scam_keywords[j])}}

(***************************************************************************)
(* C1: for every inbound body (empty, unparseable, JSON null, JSON that is *)
(* not an object, or any object) normalisation ends without raising and    *)
(* yields a session id, a history and a message text that is a non-empty   *)
(* string.                                                                 *)
(***************************************************************************)
C1_NormalizeNeverFails ==
    \A r \in Requests :
        Arrived(r) =>
            /\ ~requests[r].h.raised
            /\ Present(requests[r].h.session_id)
            /\ IsStr(requests[r].h.user_text)
            /\ requests[r].h.user_text.s # ""

(***************************************************************************)
(* C2: when llm.invoke fails on a request the handler still returns a      *)
(* response whose reply is the non-empty canned deflection, and the score, *)
(* the scamDetected flag and the indicators of the response and of the     *)
(* report job are those the same body gives when generation succeeds.      *)
(***************************************************************************)
C2_LlmFailureKeepsAnalysis ==
    \A r \in Requests :
        (Handled(r) /\ requests[r].h.llm_invoked /\ ~requests[r].llm.ok) =>
            /\ requests[r].h.response.reply = LlmFallbackReply
            /\ requests[r].h.response.reply # ""
            /\ \A good \in {o \in LlmOutcomes : o.ok} :
                 LET g == universal_handler(requests[r].body, good, AGENT_ACTIVE)
                     h == requests[r].h
                 IN  /\ ~g.raised
                     /\ h.score = g.score
                     /\ h.response.scamDetected = g.response.scamDetected
                     /\ h.response.extractedIndicators = g.response.extractedIndicators
                     /\ h.background_tasks[1].score = g.background_tasks[1].score
                     /\ h.background_tasks[1].intel = g.background_tasks[1].intel

C2_Witness ==
    \E r \in Requests :
        /\ Handled(r) /\ requests[r].h.llm_invoked /\ ~requests[r].llm.ok
        /\ requests[r].h.score >= 50
        /\ requests[r].h.response.extractedIndicators.phishingLinks # << >>
        /\ requests[r].h.background_tasks[1].notes = LlmFallbackReply

(***************************************************************************)
(* C3 as stated: a session whose score reaches the reporting threshold has *)
(* exactly one report sent to the remote endpoint over all the requests    *)
(* that carry its session id, never two or more.                           *)
(***************************************************************************)
C3_OncePerSession ==
    \A sid \in SessionIds :
        /\ SessionCalls(sid) <= 1
        /\ (\E r \in InSession(sid) : Significant(r)) => SessionCalls(sid) = 1

(***************************************************************************)
(* C3 as amended: reporting is once per request, not per session: a        *)
(* session has had as many network calls as it has requests whose report   *)
(* job has run with a score of 10 or more.                                 *)
(***************************************************************************)
C3_OncePerRequest ==
    \A sid \in SessionIds :
        SessionCalls(sid) = Cardinality({r \in InSession(sid) : Significant(r)})

C3_Witness ==
    \E r1, r2 \in Requests :
        /\ r1 # r2
        /\ Significant(r1) /\ Significant(r2)
        /\ requests[r1].h.session_id = requests[r2].h.session_id
        /\ SessionCalls(requests[r1].h.session_id) >= 2

(***************************************************************************)
(* C4: every request the handler answers schedules exactly one report job; *)
(* the job issues no network call when its score is below 10 and exactly   *)
(* one when it is 10 or more; so two requests for the same turn with a     *)
(* score of 10 or more give two network calls.                             *)
(***************************************************************************)
C4_OneJobOneCall ==
    /\ \A r \in Requests :
         /\ Handled(r) => Len(requests[r].h.background_tasks) + Len(requests[r].ran) = 1
         /\ requests[r].pc \in {"returned", "sent"} => Len(requests[r].h.background_tasks) = 1
         /\ Done(r) =>
              requests[r].ran[1].network_calls =
                  IF requests[r].ran[1].job.score < 10 THEN 0 ELSE 1
    /\ \A r1, r2 \in Requests :
         (/\ r1 # r2
          /\ Done(r1) /\ Done(r2)
          /\ requests[r1].body = requests[r2].body
          /\ requests[r1].h.score >= 10 /\ requests[r2].h.score >= 10)
         => NetworkCalls(r1) + NetworkCalls(r2) = 2

C4_Witness ==
    \E r1, r2 \in Requests :
        /\ r1 # r2
        /\ Done(r1) /\ Done(r2)
        /\ requests[r1].body = requests[r2].body
        /\ requests[r1].llm = requests[r2].llm
        /\ requests[r1].h.score >= 10
        /\ requests[r1].ran[1].net = "timeout"
        /\ NetworkCalls(r1) + NetworkCalls(r2) = 2

(***************************************************************************)
(* C5: whatever the outcome of the report's network call (success, non-2xx *)
(* status, timeout, connection error) send_callback_task returns without   *)
(* raising, and the response sent for the request is the one the handler   *)
(* built, the same for every outcome.                                      *)
(***************************************************************************)
\* the response universal_handler builds for a body, whatever happens later
C5_HandlerResponse ==
    [body \in PipelineBodies, llm \in LlmOutcomes \cup {LlmNotInvoked}, active \in BOOLEAN |->
        universal_handler(body, llm, active).response]

C5_DeliveryFailureContained ==
    \A r \in Requests :
        Done(r) =>
            /\ ~requests[r].ran[1].raised
            /\ requests[r].sent =
                 <<C5_HandlerResponse[requests[r].body, requests[r].llm, AGENT_ACTIVE]>>

C5_Witness ==
    \E r \in Requests :
        /\ Done(r)
        /\ requests[r].ran[1].net = "connection_error"
        /\ NetworkCalls(r) = 1
        /\ requests[r].sent # << >>

(***************************************************************************)
(* C6: the report's network call for a request happens only after the      *)
(* response of that request has been sent, and sending the response never  *)
(* waits for the report: a returned response can always be sent, and it is *)
(* sent while the report job is still pending.                             *)
(***************************************************************************)
C6_CallAfterResponse ==
    \A r \in Requests :
        /\ requests[r].ran # << >> => requests[r].sent # << >>
        /\ requests[r].pc = "returned" =>
              /\ requests[r].ran = << >>
              /\ ENABLED SendResponse(r)
        /\ requests[r].pc = "sent" =>
              /\ requests[r].ran = << >>
              /\ requests[r].h.background_tasks # << >>

C6_Witness ==
    \E r \in Requests :
        /\ requests[r].pc = "sent"
        /\ requests[r].sent # << >>
        /\ requests[r].ran = << >>
        /\ requests[r].h.background_tasks # << >>
        /\ requests[r].h.background_tasks[1].score >= 10

(***************************************************************************)
(* C7 as stated: on every path through the handler the score behind the    *)
(* scamDetected flag and handed to the report job is in [10, 95], so the   *)
(* reporter's score < 10 guard is never taken.                             *)
(***************************************************************************)
C7_ScoreAlwaysInRange ==
    \A r \in Requests :
        Handled(r) =>
            /\ requests[r].h.score \in 10..95
            /\ Done(r) => requests[r].ran[1].job.score >= 10

(***************************************************************************)
(* C7 as amended: the score behind scamDetected is the score handed to the *)
(* report job; it is in [10, 95] when the agent call succeeds (also when   *)
(* only the reply generator fails) and the guard is then not taken; it is  *)
(* 0 when the agent call raises or the agent module is absent, and the     *)
(* score < 10 guard then suppresses the report.                            *)
(***************************************************************************)
C7_ScoreByPath ==
    \A r \in Requests :
        Handled(r) =>
            LET h == requests[r].h
                job == IF Done(r) THEN requests[r].ran[1].job ELSE h.background_tasks[1]
            IN  /\ job.score = h.score
                /\ h.response.scamDetected = (h.score > 50)
                /\ h.agent \in {"success", "crash", "inactive"}
                /\ h.agent = "success" =>
                      /\ h.score \in 10..95
                      /\ Done(r) => NetworkCalls(r) = 1
                /\ h.agent \in {"crash", "inactive"} =>
                      /\ h.score = 0
                      /\ Done(r) => NetworkCalls(r) = 0
                /\ h.agent = "inactive" <=> ~AGENT_ACTIVE

C7_Witness ==
    \E r \in Requests :
        /\ Done(r)
        /\ requests[r].h.agent = "crash"
        /\ requests[r].h.score = 0
        /\ NetworkCalls(r) = 0

(***************************************************************************)
(* C8: the scorer returns min(95, 10 + 20*k), k the number of distinct     *)
(* vocabulary keywords that occur in the lower-cased text; the result is   *)
(* in [10, 95], is 95 when five or more distinct keywords occur, and is 70 *)
(* for "please pay urgent otp now".                                        *)
(***************************************************************************)
C8_ScoreFormula ==
    agent_call.pc = "returned" =>
        LET k == Cardinality(KeywordsIn(agent_call.user_text.s))
            s == agent_call.result.scam_score
        IN  /\ s = Min(95, 10 + 20 * k)
            /\ s \in 10..95
            /\ k >= 5 => s = 95
            /\ agent_call.user_text.s = "please pay urgent otp now" => s = 70

C8_Witness ==
    /\ agent_call.pc = "returned"
    /\ Cardinality(KeywordsIn(agent_call.user_text.s)) = 5
    /\ agent_call.result.scam_score = 95

(***************************************************************************)
(* C9: the message text is resolved first-match-wins: message.text when    *)
(* message is a structure, else message when it is a string, else text,    *)
(* else user_input, else content, else "Hello".                            *)
(***************************************************************************)
C9_ClaimedText(data) ==
    IF data.message.t = "dict"
    THEN IF Present(data.message_text) THEN data.message_text ELSE Str("Hello")
    ELSE IF data.message.t = "str" THEN data.message
    ELSE IF Present(data.text) THEN data.text
    ELSE IF Present(data.user_input) THEN data.user_input
    ELSE IF Present(data.content) THEN data.content
    ELSE Str("Hello")

C9_TextPrecedence ==
    \A r \in Requests :
        Handled(r) => requests[r].h.user_text = C9_ClaimedText(parse_body(requests[r].body))

(***************************************************************************)
(* C10: extract_intelligence on "contact me at 9876543210 or ramu@paytm or *)
(* http://bit.ly/x" gives phone numbers ["9876543210"], payment handles    *)
(* ["ramu@paytm"] and links ["http://bit.ly/x"]; an extracted link is the  *)
(* full URL as written, so it ends where the text ends or a space follows. *)
(***************************************************************************)
C10_LinkIsWholeUrl(text, link) ==
    \E i \in 1..Len(text) :
        /\ LitAt(text, i, link)
        /\ \/ i + Len(link) - 1 = Len(text)
           \/ CharAt(text, i + Len(link)) = " "

C10_ExtractExample ==
    agent_call.pc = "returned" =>
        LET text == agent_call.user_text.s
            intel == agent_call.result.intel
        IN  /\ text = "contact me at 9876543210 or ramu@paytm or http://bit.ly/x" =>
                  /\ intel.phoneNumbers = <<"9876543210">>
                  /\ intel.upiIds = <<"ramu@paytm">>
                  /\ intel.phishingLinks = <<"http://bit.ly/x">>
            /\ \A n \in 1..Len(intel.phishingLinks) :
                  C10_LinkIsWholeUrl(text, intel.phishingLinks[n])

=============================================================================
